---- MODULE Spec2Model ----
(***************************************************************************)
(* Incremental channel synchronisation of TIAN-JIANG-DEMO.                 *)
(*                                                                         *)
(* main() (src/main.py) processes the channels of one invocation one after *)
(* the other.  For each channel it fetches the uploader info, loads the    *)
(* existing output file, discovers the channel's video ids page by page    *)
(* (get_all_bvids), enriches every id that is not yet in the file          *)
(* (fetch_video_info) and rewrites the file.  Every network call and every *)
(* file operation is an await or a system call whose outcome the           *)
(* environment chooses; the model has one step per such call.              *)
(*                                                                         *)
(* Python values are modelled as follows.                                  *)
(*   - Optional[x]: None is <<>>, a value x is <<x>>.                      *)
(*   - a JSON value whose shape matters is [type, items]: type "list"      *)
(*     with its items, or another type ("dict", "none") with no items.     *)
(*   - a file is [exists, parse, data]: parse is "ok" for a JSON array of  *)
(*     objects, "bad_json" for text json.load rejects, "bad_item" for a    *)
(*     JSON array holding the objects of data and one element that is not  *)
(*     an object (the existing_bvids comprehension raises on it).          *)
(***************************************************************************)
EXTENDS Integers, Sequences, FiniteSets, TLC

VARIABLES
    files,            \* path -> file content (the file system)
    args,             \* argparse result: the command line of every invocation
    syncs,            \* number of channels processed so far, over all invocations
    upstream,         \* "narrow" | "wide": the answers the upstream may give
    channels_to_process,
    chan,             \* index of the channel being processed (the for loop)
    pc,               \* position in main()
    uploader_info,
    output_file,
    existing_data,
    existing_bvids,
    all_bvids,
    new_bvids,
    all_video_info,
    idx,              \* enumerate(new_bvids, 1)
    paging,           \* a call of get_all_bvids on its own: input and result
    call,             \* a call of fetch_video_info on its own: input and result
    manager,          \* a ChannelMapManager, its files and its calls
    prev,             \* observations of the sync before the current one
    obs               \* observations of the current channel's processing

vars == <<files, args, syncs, upstream, channels_to_process, chan, pc, uploader_info,
          output_file, existing_data, existing_bvids, all_bvids, new_bvids,
          all_video_info, idx, paging, call, manager, prev, obs>>

(***************************************************************************)
(* Bounds of the model.                                                    *)
(***************************************************************************)
MaxSyncs == 2         \* channels processed, over all invocations
MaxListed == 2        \* videos a channel listing holds in total
PageSize == 2         \* page_size of get_all_bvids in main (30 in the code)

DefaultPageSize == 30

Ids == {"a", "b"}

None == <<>>
Some(x) == <<x>>

(***************************************************************************)
(* Sequence helpers.                                                       *)
(***************************************************************************)
Range(s) == {s[i] : i \in 1..Len(s)}

RECURSIVE SeqsUpTo(_, _)
SeqsUpTo(S, n) ==
    IF n = 0 THEN {<<>>}
    ELSE LET shorter == SeqsUpTo(S, n - 1)
         IN shorter \cup {Append(s, x) : s \in {t \in shorter : Len(t) = n - 1}, x \in S}

NoDup(s) == \A i, j \in 1..Len(s) : i # j => s[i] # s[j]


(***************************************************************************)
(* Identifier discovery: get_all_bvids (src/utils/bili_video.py).          *)
(* A listing is the sequence of the upstream's answers to the page         *)
(* requests 1, 2, ...: [fail, vlist].  A page past the end of the listing  *)
(* is empty.  An entry of vlist is [bvid]: Some(id), or None when the      *)
(* entry has no "bvid" key.                                                *)
(***************************************************************************)
Entry(x) == [bvid |-> Some(x)]
NoBvid == [bvid |-> None]

EmptyPage == [fail |-> FALSE, vlist |-> <<>>]
FailPage == [fail |-> TRUE, vlist |-> <<>>]

get_videos(listing, pn) == IF pn <= Len(listing) THEN listing[pn] ELSE EmptyPage

RECURSIVE BvidsOf(_)
BvidsOf(videos) ==
    IF videos = <<>> THEN <<>>
    ELSE IF Head(videos).bvid = None THEN BvidsOf(Tail(videos))
    ELSE Head(videos).bvid \o BvidsOf(Tail(videos))

\* get_all_bvids_loop without the test of lines 25-26: only an empty page stops it
RECURSIVE get_all_bvids_loop_until_empty(_, _, _, _, _)
get_all_bvids_loop_until_empty(listing, page_size, page, acc, requests) ==
    LET result == get_videos(listing, page)
        reqs == Append(requests, page)
        videos == result.vlist
    IN IF result.fail
       THEN [raised |-> TRUE, bvids |-> <<>>, requests |-> reqs]
       ELSE IF videos = <<>>
       THEN [raised |-> FALSE, bvids |-> acc, requests |-> reqs]
       ELSE get_all_bvids_loop_until_empty(listing, page_size, page + 1,
                                           acc \o BvidsOf(videos), reqs)

\* get_all_bvids_loop that catches the error of a page request and returns
\* the ids of the pages before it
RECURSIVE get_all_bvids_loop_keeps_pages(_, _, _, _, _)
get_all_bvids_loop_keeps_pages(listing, page_size, page, acc, requests) ==
    LET result == get_videos(listing, page)
        reqs == Append(requests, page)
        videos == result.vlist
    IN IF result.fail
       THEN [raised |-> FALSE, bvids |-> acc, requests |-> reqs]
       ELSE IF videos = <<>>
       THEN [raised |-> FALSE, bvids |-> acc, requests |-> reqs]
       ELSE IF Len(videos) < page_size
       THEN [raised |-> FALSE, bvids |-> acc \o BvidsOf(videos), requests |-> reqs]
       ELSE get_all_bvids_loop_keeps_pages(listing, page_size, page + 1,
                                          acc \o BvidsOf(videos), reqs)

\* The while loop: raised is TRUE when a page request raised (the exception
\* leaves get_all_bvids); requests are the page numbers asked for, in order.
RECURSIVE get_all_bvids_loop(_, _, _, _, _)
get_all_bvids_loop(listing, page_size, page, acc, requests) ==
    LET result == get_videos(listing, page)
        reqs == Append(requests, page)
        videos == result.vlist
    IN IF result.fail
       THEN [raised |-> TRUE, bvids |-> <<>>, requests |-> reqs]
       ELSE IF videos = <<>>
       THEN [raised |-> FALSE, bvids |-> acc, requests |-> reqs]
       ELSE IF Len(videos) < page_size
       THEN [raised |-> FALSE, bvids |-> acc \o BvidsOf(videos), requests |-> reqs]
       ELSE get_all_bvids_loop(listing, page_size, page + 1,
                               acc \o BvidsOf(videos), reqs)

get_all_bvids(listing, page_size) ==
    get_all_bvids_loop(listing, page_size, 1, <<>>, <<>>)

(***************************************************************************)
(* Uploader context: fetch_uploader_info (src/utils/bili_video.py).        *)
(* up is the outcome of user.get_user_info(): it raises, or returns a      *)
(* dict whose fields UploaderInfo accepts (valid) or rejects.              *)
(***************************************************************************)
UploaderInfo(mid, name, follower, total) ==
    [uploader_mid |-> mid, uploader_name |-> name,
     uploader_follower |-> follower, uploader_total_videos |-> total]

\* fetch_uploader_info whose except branch keeps the counts it was given
fetch_uploader_info_keeps_counts(uid, up) ==
    IF up.raises \/ ~up.valid
    THEN UploaderInfo(uid, None, up.follower, up.archive_count)
    ELSE UploaderInfo(uid, up.name, up.follower, up.archive_count)

fetch_uploader_info(uid, up) ==
    IF up.raises \/ ~up.valid
    THEN UploaderInfo(uid, None, None, None)
    ELSE UploaderInfo(uid, up.name, up.follower, up.archive_count)

(***************************************************************************)
(* Item enrichment: fetch_video_info (src/utils/bili_video.py).            *)
(* A Python value whose shape decides the outcome is [type, items]: a list *)
(* with its items, or a value of another type.  The value get_related      *)
(* returns is [type, items, has_data, data]: for a dict, has_data tells    *)
(* whether it has the key "data" and data is the value under it.           *)
(* api is what the upstream does for this video:                           *)
(*   ctor           "ok" | "raise"      video.Video(bvid, ...)             *)
(*   base           "ok" | "code" | "error"   v.get_info(): returns,       *)
(*                  raises ResponseCodeException, raises another exception *)
(*   bvid           "given" | "missing" | "bad"   video_info["bvid"]: the  *)
(*                  id asked for, no such key, a value that is no str      *)
(*   required       TRUE iff title, stat, owner, desc, ... pass the types  *)
(*                  of VideoInfo                                           *)
(*   pages          "missing" | "null" | "list", npages the list's length  *)
(*   danmaku        TRUE iff video_info["stat"]["danmaku"] exists          *)
(*   owner_mid, owner_name   video_info["owner"]["mid"] and ["name"], None *)
(*                  when absent                                            *)
(*   tags_raises, tags            v.get_tags()                             *)
(*   related_raises, related      v.get_related()                          *)
(***************************************************************************)
PyList(items) == [type |-> "list", items |-> items]
PyNone == [type |-> "none", items |-> <<>>]
PyDict == [type |-> "dict", items |-> <<>>]

Unwrapped(v) == [type |-> v.type, items |-> v.items, has_data |-> FALSE, data |-> PyNone]
Wrapped(v) == [type |-> "dict", items |-> <<>>, has_data |-> TRUE, data |-> v]

\* pydantic accepts a list for List[Any] and rejects a dict, None, a str, a number
IsListValue(v) == v.type = "list"

VideoRecord(bvid, tags, related, danmaku, npages, up) ==
    [bvid |-> Some(bvid), tags |-> tags, related_videos |-> related,
     danmaku_count |-> danmaku, num_pages |-> npages,
     uploader_mid |-> Some(up.uploader_mid), uploader_name |-> up.uploader_name,
     uploader_follower |-> up.uploader_follower,
     uploader_total_videos |-> up.uploader_total_videos]

Raised == [result |-> "raise", rec |-> <<>>, calls |-> <<>>]
Absent(calls) == [result |-> "none", rec |-> <<>>, calls |-> calls]

\* TagsOf whose except branch leaves tags unset
TagsOf_unset_on_error(api) == IF api.tags_raises THEN PyNone ELSE api.tags

\* lines 63-67
TagsOf(api) == IF api.tags_raises THEN PyList(<<>>) ELSE api.tags

\* lines 69-77
RelatedOf(api) ==
    IF api.related_raises THEN PyList(<<>>)
    ELSE IF api.related.type = "dict" /\ api.related.has_data
    THEN api.related.data
    ELSE [type |-> api.related.type, items |-> api.related.items]

\* lines 79-82
DanmakuOf(api) == IF api.danmaku THEN Some(5) ELSE None

\* lines 84-87: len(video_info.get("pages", []))
NumPagesOf(api) ==
    CASE api.pages = "missing" -> Some(0)
      [] api.pages = "null" -> None
      [] OTHER -> Some(api.npages)

\* BuildsVideoInfo that reads the id with .get and does not type it
BuildsVideoInfo_untyped_bvid(api, tags, related_videos) ==
    /\ api.required
    /\ IsListValue(tags)
    /\ IsListValue(related_videos)

\* lines 101-125: VideoInfo(...) raises on a missing key or a wrong type
BuildsVideoInfo(api, tags, related_videos) ==
    /\ api.bvid = "given"
    /\ api.required
    /\ IsListValue(tags)
    /\ IsListValue(related_videos)

\* fetch_video_info that takes the uploader from the video's owner even when
\* an UploaderInfo is supplied
fetch_video_info_owner_uploader(bvid, api, supplied) ==
    IF api.ctor = "raise" THEN Raised
    ELSE IF api.base # "ok" THEN Absent(<<"get_info">>)
    ELSE
    LET tags == TagsOf(api)
        related_videos == RelatedOf(api)
        calls == <<"get_info", "get_tags", "get_related">>
    IN IF api.owner_mid = None THEN Absent(calls)
       ELSE
       LET uploader == UploaderInfo(api.owner_mid[1], api.owner_name, None, None)
       IN IF BuildsVideoInfo(api, tags, related_videos)
          THEN [result |-> "record",
                rec |-> <<VideoRecord(bvid, tags.items, related_videos.items,
                                      DanmakuOf(api), NumPagesOf(api), uploader)>>,
                calls |-> calls]
          ELSE Absent(calls)

\* fetch_video_info without the except clause of lines 128-129: an error of
\* get_info that is no ResponseCodeException leaves the function
fetch_video_info_code_only(bvid, api, supplied) ==
    IF api.ctor = "raise" THEN Raised
    ELSE IF api.base = "error" THEN Raised
    ELSE IF api.base # "ok" THEN Absent(<<"get_info">>)
    ELSE
    LET tags == TagsOf(api)
        related_videos == RelatedOf(api)
        calls == <<"get_info", "get_tags", "get_related">>
    IN IF supplied = None /\ api.owner_mid = None THEN Absent(calls)
       ELSE
       LET uploader == IF supplied # None THEN supplied[1]
                       ELSE UploaderInfo(api.owner_mid[1], api.owner_name, None, None)
       IN IF BuildsVideoInfo(api, tags, related_videos)
          THEN [result |-> "record",
                rec |-> <<VideoRecord(bvid, tags.items, related_videos.items,
                                      DanmakuOf(api), NumPagesOf(api), uploader)>>,
                calls |-> calls]
          ELSE Absent(calls)

\* supplied is the uploader_info argument: None, or <<UploaderInfo>>
fetch_video_info(bvid, api, supplied) ==
    IF api.ctor = "raise" THEN Raised                          \* line 58
    ELSE IF api.base # "ok" THEN Absent(<<"get_info">>)        \* lines 61, 126-130
    ELSE
    LET tags == TagsOf(api)
        related_videos == RelatedOf(api)
        calls == <<"get_info", "get_tags", "get_related">>
    IN \* lines 94-99: UploaderInfo(uploader_mid=None, ...) raises, caught at 128
       IF supplied = None /\ api.owner_mid = None THEN Absent(calls)
       ELSE
       LET uploader == IF supplied # None THEN supplied[1]
                       ELSE UploaderInfo(api.owner_mid[1], api.owner_name, None, None)
       IN IF BuildsVideoInfo(api, tags, related_videos)
          THEN [result |-> "record",
                rec |-> <<VideoRecord(bvid, tags.items, related_videos.items,
                                      DanmakuOf(api), NumPagesOf(api), uploader)>>,
                calls |-> calls]
          ELSE Absent(calls)

(***************************************************************************)
(* The environment of main(): the channel map, the file system and the     *)
(* upstream's answers.                                                     *)
(***************************************************************************)
\* channel_map.items(), in the order of the map file
ChannelMap == <<[name |-> "c1", id |-> 1], [name |-> "c2", id |-> 2]>>

ChannelNames == {ChannelMap[i].name : i \in 1..Len(ChannelMap)}
ChannelIds == {ChannelMap[i].id : i \in 1..Len(ChannelMap)}

\* the name the upstream reports for a channel id
UpstreamName(id) == IF id = 1 THEN "n1" ELSE "n2"

\* A path is <<stem, number>>: --output is <<"out", 0>>, the default file
\* name f"{uploader_name}_{uploader_mid}.json" is <<uploader_name, uploader_mid>>.
OutPath == <<"out", 0>>
Paths == {OutPath} \cup {<<n, i>> : n \in {"unknown", "n1", "n2"}, i \in ChannelIds}

NoFile == [exists |-> FALSE, parse |-> "ok", data |-> <<>>]
JsonFile(data) == [exists |-> TRUE, parse |-> "ok", data |-> data]
\* what open(path, "w") leaves when json.dump raises before it has finished
PartialFile == [exists |-> TRUE, parse |-> "bad_json", data |-> <<>>]

\* The answers of user.get_user_info() for a channel: it raises, or returns
\* a dict; the wide upstream may return one whose fields UploaderInfo rejects.
UploaderAnswers(id) ==
    {[raises |-> r, valid |-> v, name |-> Some(UpstreamName(id)),
      follower |-> Some(7), archive_count |-> Some(3)] :
        r \in BOOLEAN, v \in (IF upstream = "wide" THEN BOOLEAN ELSE {TRUE})}

\* The listings a channel may have: pages of at most PageSize entries, at
\* most MaxListed entries in all; any page request may fail.
Items == {Entry(i) : i \in Ids} \cup {NoBvid}

Pages ==
    {FailPage} \cup {[fail |-> FALSE, vlist |-> v] : v \in SeqsUpTo(Items, PageSize)}

RECURSIVE Listed(_)
Listed(listing) ==
    IF listing = <<>> THEN 0 ELSE Len(Head(listing).vlist) + Listed(Tail(listing))

Listings ==
    {l \in SeqsUpTo(Pages, (MaxListed \div PageSize) + 1) : Listed(l) <= MaxListed}

\* The answers of the upstream for one video.  The narrow upstream fails
\* Video() or get_info(), or answers with valid metadata and lists of tags
\* and related videos; the wide one may also answer with metadata VideoInfo
\* rejects, fail get_tags or get_related, or answer them with a value of
\* another shape.
ApiOf(c, b, i, q, tr, t, rr, r) ==
    [ctor |-> c, base |-> b, bvid |-> i, required |-> q,
     pages |-> "list", npages |-> 1, danmaku |-> TRUE,
     owner_mid |-> Some(9), owner_name |-> Some("o"),
     tags_raises |-> tr, tags |-> t, related_raises |-> rr, related |-> r]

TagList == PyList(<<"t">>)
RelatedList == PyList(<<"r">>)

\* Answers that differ only in a call fetch_video_info never makes (after
\* Video() or get_info() raised) or in the value of a call that raised are
\* the same answer: such fields hold a fixed value.
CtorRaises == ApiOf("raise", "ok", "given", TRUE, FALSE, TagList, FALSE, Unwrapped(RelatedList))

BaseFails ==
    {ApiOf("ok", b, "given", TRUE, FALSE, TagList, FALSE, Unwrapped(RelatedList)) :
        b \in {"code", "error"}}

TagsAnswers ==
    {<<TRUE, PyNone>>} \cup {<<FALSE, t>> : t \in {TagList, PyDict, PyNone}}

RelatedAnswers ==
    {<<TRUE, Unwrapped(PyNone)>>} \cup
    {<<FALSE, r>> : r \in {Unwrapped(RelatedList), Wrapped(RelatedList), Wrapped(PyNone),
                           Unwrapped(PyDict), Unwrapped(PyNone)}}

NarrowApis ==
    {CtorRaises,
     ApiOf("ok", "code", "given", TRUE, FALSE, TagList, FALSE, Unwrapped(RelatedList)),
     ApiOf("ok", "ok", "given", TRUE, FALSE, TagList, FALSE, Unwrapped(RelatedList))}

\* metadata VideoInfo rejects: <<bvid, required>>
InvalidBases == {<<"missing", TRUE>>, <<"bad", TRUE>>, <<"given", FALSE>>}

\* With valid metadata get_tags and get_related answer in every way; with
\* metadata VideoInfo rejects each of them raises or answers with a list.
WideApis ==
    {CtorRaises} \cup BaseFails \cup
    {ApiOf("ok", "ok", "given", TRUE, t[1], t[2], r[1], r[2]) :
        t \in TagsAnswers, r \in RelatedAnswers} \cup
    {ApiOf("ok", "ok", b[1], b[2], t[1], t[2], r[1], r[2]) :
        b \in InvalidBases,
        t \in {<<TRUE, PyNone>>, <<FALSE, TagList>>},
        r \in {<<TRUE, Unwrapped(PyNone)>>, <<FALSE, Unwrapped(RelatedList)>>}}

Apis == IF upstream = "wide" THEN WideApis ELSE NarrowApis

(***************************************************************************)
(* main() (src/main.py).                                                   *)
(***************************************************************************)
NoUploader == UploaderInfo(0, None, None, None)

\* What is recorded about the processing of the current channel:
\*   status    "running", "written" (line 157 reached) or "failed" (line 159)
\*   pre       the content of output_file when the processing began
\*   fetched   number of get_user_info() calls
\*   up_raised the last of them raised
\*   loaded    the output file was opened for reading
\*   requests  the page numbers get_all_bvids asked for
\*   failed    those of them whose request raised
\*   enriched  the ids fetch_video_info was called with, in order
\*   results   what each of these calls returned: "record" or "none"
\*   last      the last of these calls: the requests it made, how get_info
\*             answered ("-" when Video() raised), whether the base metadata
\*             was there and valid and, if so, how get_tags and get_related
\*             answered
NoCall == [calls |-> <<>>, base |-> "-", valid_base |-> FALSE, tags |-> "-",
           related |-> "-"]
NoObs == [status |-> "running", pre |-> NoFile, fetched |-> 0, up_raised |-> FALSE,
          loaded |-> FALSE,
          requests |-> <<>>, failed |-> {}, enriched |-> <<>>, results |-> <<>>, last |-> NoCall]

ValidBase(api) ==
    api.ctor = "ok" /\ api.base = "ok" /\ api.bvid = "given" /\ api.required

CallOf(api, info) ==
    [calls |-> info.calls,
     base |-> IF api.ctor = "ok" THEN api.base ELSE "-",
     valid_base |-> ValidBase(api),
     tags |-> IF ~ValidBase(api) THEN "-"
              ELSE IF api.tags_raises THEN "raise" ELSE api.tags.type,
     related |-> IF ~ValidBase(api) THEN "-"
                 ELSE IF api.related_raises THEN "raise"
                 ELSE IF api.related.type = "dict" /\ api.related.has_data
                 THEN (IF api.related.data.type = "list"
                       THEN "wrapped_list" ELSE "wrapped_other")
                 ELSE api.related.type]

\* What is remembered of the sync before the current one, when it wrote its
\* file: its channel, its output file, and what fetch_video_info returned
\* for which id.
NoPrev == [status |-> "none", channel |-> 0, path |-> OutPath, outcomes |-> {}]

\* lines 90-101
ChannelsToProcess(channel) ==
    IF channel # None
    THEN IF \E i \in 1..Len(ChannelMap) : ChannelMap[i].name = channel[1]
         THEN <<CHOOSE c \in Range(ChannelMap) : c.name = channel[1]>>
         ELSE <<>>
    ELSE ChannelMap

Channel == channels_to_process[chan]

\* line 115, with lines 109-114
OutputFile(output, info) ==
    IF output # None THEN output[1]
    ELSE <<IF info.uploader_name # None THEN info.uploader_name[1] ELSE "unknown",
           info.uploader_mid>>

\* ExistingBvids that finds no id (the comprehension reads a key the records lack)
ExistingBvids_wrong_key(data) == {}

\* lines 124-126
ExistingBvids(data) == {data[i].bvid[1] : i \in {j \in 1..Len(data) : data[j].bvid # None}}

\* NewBvids without the filter: every discovered id is new
NewBvids_unfiltered(bvids, existing) == bvids

\* NewBvids that yields the new ids last-discovered first
NewBvids_newest_first(bvids, existing) ==
    LET new == SelectSeq(bvids, LAMBDA b : b \notin existing)
    IN [i \in 1..Len(new) |-> new[Len(new) + 1 - i]]

\* line 136
RECURSIVE NewBvids(_, _)
NewBvids(bvids, existing) ==
    IF bvids = <<>> THEN <<>>
    ELSE IF Head(bvids) \in existing THEN NewBvids(Tail(bvids), existing)
    ELSE <<Head(bvids)>> \o NewBvids(Tail(bvids), existing)

\* no ChannelMapManager
NoManager ==
    [built |-> FALSE, channel_map |-> <<>>, map_file |-> NoFile, urls |-> <<>>,
     name_map |-> <<>>, info_files |-> <<>>, calls |-> 0, raised |-> FALSE,
     before |-> [channel_map |-> <<>>, map_file |-> NoFile]]

\* no call of fetch_video_info on its own
NoEnrich == [bvid |-> "a", api |-> CtorRaises, supplied |-> None, done |-> FALSE,
             result |-> Raised]

NoPaging == [listing |-> <<>>, page_size |-> 0, done |-> FALSE,
             result |-> [raised |-> FALSE, bvids |-> <<>>, requests |-> <<>>]]

\* The command lines of the model: one channel into its default file, or
\* every channel of the map, into the default files or into --output.
CommandLines ==
    {a \in [channel : {None, Some("c1")}, output : {None, Some(OutPath)},
            overwrite : BOOLEAN] : a.channel # None => a.output = None}

ResetLocals ==
    /\ uploader_info' = NoUploader
    /\ output_file' = OutPath
    /\ existing_data' = <<>>
    /\ existing_bvids' = {}
    /\ all_bvids' = <<>>
    /\ new_bvids' = <<>>
    /\ all_video_info' = <<>>
    /\ idx' = 1

Init ==
    /\ files = [p \in Paths |-> NoFile]
    /\ args \in CommandLines
    /\ syncs = 0
    /\ upstream = "narrow"
    /\ channels_to_process = <<>>
    /\ chan = 1
    /\ pc = "idle"
    /\ uploader_info = NoUploader
    /\ output_file = OutPath
    /\ existing_data = <<>>
    /\ existing_bvids = {}
    /\ all_bvids = <<>>
    /\ new_bvids = <<>>
    /\ all_video_info = <<>>
    /\ idx = 1
    /\ paging = NoPaging
    /\ call = NoEnrich
    /\ manager = NoManager
    /\ prev = NoPrev
    /\ obs = NoObs

\* The files a user may have put where main() writes: none; text that is no
\* JSON; a JSON array with an element that is no object; an array with an
\* object that has no "bvid" and no uploader fields; the output of an
\* earlier sync of channel 1.
EarlierRecord ==
    VideoRecord("a", <<"t">>, <<"r">>, Some(5), Some(1),
                UploaderInfo(1, Some("n1"), Some(7), Some(3)))

ForeignRecord ==
    [bvid |-> None, tags |-> <<>>, related_videos |-> <<>>,
     danmaku_count |-> None, num_pages |-> None,
     uploader_mid |-> None, uploader_name |-> None,
     uploader_follower |-> None, uploader_total_videos |-> None]

InitialFiles ==
    {NoFile,
     [exists |-> TRUE, parse |-> "bad_json", data |-> <<>>],
     [exists |-> TRUE, parse |-> "bad_item", data |-> <<EarlierRecord>>],
     JsonFile(<<ForeignRecord, EarlierRecord>>),
     JsonFile(<<EarlierRecord>>)}

\* One sync of channel 1 over a file of InitialFiles, against the wide upstream.
InitItem ==
    /\ \E f \in InitialFiles : files = [p \in Paths |-> f]
    /\ args \in [channel : {Some("c1")}, output : {None}, overwrite : BOOLEAN]
    /\ syncs = MaxSyncs - 1
    /\ upstream = "wide"
    /\ channels_to_process = <<>>
    /\ chan = 1
    /\ pc = "idle"
    /\ uploader_info = NoUploader
    /\ output_file = OutPath
    /\ existing_data = <<>>
    /\ existing_bvids = {}
    /\ all_bvids = <<>>
    /\ new_bvids = <<>>
    /\ all_video_info = <<>>
    /\ idx = 1
    /\ paging = NoPaging
    /\ call = NoEnrich
    /\ manager = NoManager
    /\ prev = NoPrev
    /\ obs = NoObs

\* One invocation of main() begins: lines 82-101.
StartRun ==
    /\ pc = "idle"
    /\ UNCHANGED <<paging, call, manager, prev>>
    /\ syncs + Len(ChannelsToProcess(args.channel)) <= MaxSyncs
    /\ channels_to_process' = ChannelsToProcess(args.channel)
    /\ pc' = IF ChannelsToProcess(args.channel) = <<>> THEN "idle" ELSE "uploader"
    /\ syncs' = syncs + Len(ChannelsToProcess(args.channel))
    /\ chan' = 1
    /\ obs' = NoObs
    /\ ResetLocals
    /\ UNCHANGED <<files, args, upstream>>

\* ChannelFails that leaves the for loop: the exception is not caught in it
ChannelFails_leaves_loop ==
    /\ pc' = "idle"
    /\ obs' = [obs EXCEPT !.status = "failed"]

\* lines 158-161: the except clause of the channel loop
ChannelFails ==
    /\ pc' = "next"
    /\ obs' = [obs EXCEPT !.status = "failed"]

\* lines 106-115.  User(int(channel_id)) may raise; fetch_uploader_info never does.
FetchUploader ==
    /\ pc = "uploader"
    /\ UNCHANGED <<paging, call, manager, prev>>
    /\ \/ /\ ChannelFails
          /\ UNCHANGED <<uploader_info, output_file>>
       \/ \E up \in UploaderAnswers(Channel.id) :
            LET info == fetch_uploader_info(Channel.id, up)
                path == OutputFile(args.output, info)
            IN /\ uploader_info' = info
               /\ output_file' = path
               /\ obs' = [obs EXCEPT !.fetched = @ + 1, !.up_raised = up.raises,
                                     !.pre = files[path]]
               /\ pc' = "load"
    /\ UNCHANGED <<files, args, syncs, upstream, channels_to_process, chan, existing_data,
                   existing_bvids, all_bvids, new_bvids, all_video_info, idx>>

\* LoadExisting whose test at line 120 leaves out "and not args.overwrite"
LoadExisting_ignores_overwrite ==
    /\ pc = "load"
    /\ UNCHANGED <<paging, call, manager, prev>>
    /\ IF files[output_file].exists
       THEN \/ /\ ChannelFails
               /\ UNCHANGED <<existing_data, existing_bvids>>
            \/ /\ existing_data' = IF files[output_file].parse = "ok"
                                   THEN files[output_file].data ELSE <<>>
               /\ existing_bvids' = IF files[output_file].parse = "ok"
                                    THEN ExistingBvids(files[output_file].data) ELSE {}
               /\ obs' = [obs EXCEPT !.loaded = TRUE]
               /\ pc' = "discover"
       ELSE /\ existing_data' = <<>>
            /\ existing_bvids' = {}
            /\ pc' = "discover"
            /\ UNCHANGED obs
    /\ UNCHANGED <<files, args, syncs, upstream, channels_to_process, chan, uploader_info,
                   output_file, all_bvids, new_bvids, all_video_info, idx>>

\* lines 117-132.  open() may raise: it is outside the inner try.
LoadExisting ==
    /\ pc = "load"
    /\ UNCHANGED <<paging, call, manager, prev>>
    /\ IF files[output_file].exists /\ ~args.overwrite
       THEN \/ /\ ChannelFails
               /\ UNCHANGED <<existing_data, existing_bvids>>
            \/ /\ existing_data' = IF files[output_file].parse = "ok"
                                   THEN files[output_file].data ELSE <<>>
               /\ existing_bvids' = IF files[output_file].parse = "ok"
                                    THEN ExistingBvids(files[output_file].data) ELSE {}
               /\ obs' = [obs EXCEPT !.loaded = TRUE]
               /\ pc' = "discover"
       ELSE /\ existing_data' = <<>>
            /\ existing_bvids' = {}
            /\ pc' = "discover"
            /\ UNCHANGED obs
    /\ UNCHANGED <<files, args, syncs, upstream, channels_to_process, chan, uploader_info,
                   output_file, all_bvids, new_bvids, all_video_info, idx>>

\* lines 134-142
Discover ==
    /\ pc = "discover"
    /\ UNCHANGED <<paging, call, manager, prev>>
    /\ \E listing \in Listings :
         LET r == get_all_bvids(listing, PageSize)
             failed == {p \in Range(r.requests) : get_videos(listing, p).fail}
         IN IF r.raised
            THEN /\ pc' = "next"
                 /\ obs' = [obs EXCEPT !.status = "failed", !.requests = r.requests,
                                       !.failed = failed]
                 /\ UNCHANGED <<all_bvids, new_bvids, all_video_info>>
            ELSE /\ all_bvids' = r.bvids
                 /\ all_video_info' = existing_data
                 /\ new_bvids' = NewBvids(r.bvids, existing_bvids)
                 /\ obs' = [obs EXCEPT !.requests = r.requests, !.failed = failed]
                 /\ pc' = "enrich"
    /\ idx' = 1
    /\ UNCHANGED <<files, args, syncs, upstream, channels_to_process, chan, uploader_info,
                   output_file, existing_data, existing_bvids>>

\* lines 143-148: one iteration of the loop over new_bvids
EnrichOne ==
    /\ pc = "enrich"
    /\ UNCHANGED <<paging, call, manager, prev>>
    /\ idx <= Len(new_bvids)
    /\ \E api \in Apis :
         LET info == fetch_video_info(new_bvids[idx], api, Some(uploader_info))
         IN IF info.result = "raise"
            THEN /\ pc' = "next"
                 /\ obs' = [obs EXCEPT !.status = "failed", !.last = CallOf(api, info),
                                       !.enriched = Append(@, new_bvids[idx])]
                 /\ UNCHANGED <<all_video_info, idx>>
            ELSE /\ all_video_info' = all_video_info \o info.rec
                 /\ idx' = idx + 1
                 /\ obs' = [obs EXCEPT !.last = CallOf(api, info),
                                       !.enriched = Append(@, new_bvids[idx]),
                                       !.results = Append(@, info.result)]
                 /\ pc' = "enrich"
    /\ UNCHANGED <<files, args, syncs, upstream, channels_to_process, chan, uploader_info,
                   output_file, existing_data, existing_bvids, all_bvids, new_bvids>>

\* lines 150-157.  open(output_file, "w") may raise, leaving the file as it
\* was; json.dump may raise after open has truncated the file.
WriteOutput ==
    /\ pc = "enrich"
    /\ UNCHANGED <<paging, call, manager, prev>>
    /\ idx > Len(new_bvids)
    /\ \/ /\ files' = [files EXCEPT ![output_file] = JsonFile(all_video_info)]
          /\ obs' = [obs EXCEPT !.status = "written"]
          /\ pc' = "next"
       \/ /\ ChannelFails
          /\ UNCHANGED files
       \/ /\ ChannelFails
          /\ files' = [files EXCEPT ![output_file] = PartialFile]
    /\ UNCHANGED <<args, syncs, upstream, channels_to_process, chan, uploader_info, output_file,
                   existing_data, existing_bvids, all_bvids, new_bvids,
                   all_video_info, idx>>

\* line 103: the for loop goes to the next channel, or main() returns
NextChannel ==
    /\ pc = "next"
    /\ UNCHANGED <<paging, call, manager>>
    /\ prev' = IF obs.status = "written"
               THEN [status |-> "written", channel |-> Channel.id, path |-> output_file,
                     outcomes |-> {<<obs.enriched[i], obs.results[i]>> :
                                      i \in 1..Len(obs.results)}]
               ELSE NoPrev
    /\ IF chan < Len(channels_to_process)
       THEN /\ chan' = chan + 1
            /\ pc' = "uploader"
       ELSE /\ chan' = chan
            /\ pc' = "idle"
    /\ obs' = NoObs
    /\ ResetLocals
    /\ channels_to_process' = IF chan < Len(channels_to_process)
                              THEN channels_to_process ELSE <<>>
    /\ UNCHANGED <<files, args, syncs, upstream>>

Next ==
    \/ StartRun
    \/ FetchUploader
    \/ LoadExisting
    \/ Discover
    \/ EnrichOne
    \/ WriteOutput
    \/ NextChannel

Spec == Init /\ [][Next]_vars

SpecItem == InitItem /\ [][Next]_vars

(***************************************************************************)
(* get_all_bvids on its own.  The shape of a page is [fail, has]: has[k]   *)
(* tells whether entry k has a "bvid".  Entry k of page p of a listing is  *)
(* the video number (p - 1) * page_size + k, so no two entries of a        *)
(* listing are the same video.                                             *)
(***************************************************************************)
MaxPages == 3         \* pages of a listing walked on its own

PageShapes ==
    {[fail |-> TRUE, has |-> <<>>]} \cup
    {[fail |-> FALSE, has |-> h] : h \in SeqsUpTo(BOOLEAN, PageSize)}

PageOfShape(shape, p, page_size) ==
    [fail |-> shape.fail,
     vlist |-> [k \in 1..Len(shape.has) |->
                   IF shape.has[k] THEN Entry((p - 1) * page_size + k) ELSE NoBvid]]

ListingOfShapes(shapes, page_size) ==
    [p \in 1..Len(shapes) |-> PageOfShape(shapes[p], p, page_size)]

FullShape(n) == [fail |-> FALSE, has |-> [k \in 1..n |-> TRUE]]

\* pages of 30, 30 and 12 videos, asked for with the default page_size
ExampleListing ==
    ListingOfShapes(<<FullShape(DefaultPageSize), FullShape(DefaultPageSize),
                      FullShape(12)>>, DefaultPageSize)

PagingInputs ==
    {[listing |-> ListingOfShapes(sh, PageSize), page_size |-> PageSize] :
        sh \in SeqsUpTo(PageShapes, MaxPages)}
    \cup {[listing |-> ExampleListing, page_size |-> DefaultPageSize]}

InitPaging ==
    /\ \E i \in PagingInputs :
         paging = [listing |-> i.listing, page_size |-> i.page_size, done |-> FALSE,
                   result |-> NoPaging.result]
    /\ files = [p \in Paths |-> NoFile]
    /\ args = [channel |-> None, output |-> None, overwrite |-> FALSE]
    /\ syncs = 0
    /\ upstream = "narrow"
    /\ channels_to_process = <<>>
    /\ chan = 1
    /\ pc = "paging"
    /\ call = NoEnrich
    /\ manager = NoManager
    /\ uploader_info = NoUploader
    /\ output_file = OutPath
    /\ existing_data = <<>>
    /\ existing_bvids = {}
    /\ all_bvids = <<>>
    /\ new_bvids = <<>>
    /\ all_video_info = <<>>
    /\ idx = 1
    /\ prev = NoPrev
    /\ obs = NoObs

\* await get_all_bvids(user, page_size)
Paginate ==
    /\ pc = "paging"
    /\ ~paging.done
    /\ paging' = [paging EXCEPT !.done = TRUE,
                                !.result = get_all_bvids(paging.listing, paging.page_size)]
    /\ UNCHANGED <<files, args, syncs, upstream, channels_to_process, chan, pc,
                   uploader_info, output_file, existing_data, existing_bvids,
                   all_bvids, new_bvids, all_video_info, idx, call, manager, prev, obs>>

NextPaging == Paginate

SpecPaging == InitPaging /\ [][NextPaging]_vars


(***************************************************************************)
(* Properties.                                                             *)
(***************************************************************************)
\* the ids of the records of a file
FileIds(f) == {f.data[i].bvid[1] : i \in {j \in 1..Len(f.data) : f.data[j].bvid # None}}

UniqueIds(data) ==
    \A i, j \in 1..Len(data) :
        (i # j /\ data[i].bvid # None) => data[i].bvid # data[j].bvid

Last(seq) == seq[Len(seq)]

SyncEnded == pc = "next"
SyncWrote == pc = "next" /\ obs.status = "written"

\* the records the current sync has appended to the loaded collection
Appended == SubSeq(all_video_info, Len(existing_data) + 1, Len(all_video_info))

\* C1: starting from absent files, no two records of a file that main() wrote
\* share a bvid.
C1_UniqueIds ==
    \A p \in Paths : files[p].parse = "ok" => UniqueIds(files[p].data)

\* C2: when a sync without --overwrite has ended, by the write or by the
\* except clause, the ids of its output file include the ids the file held
\* when the sync began.
C2_MonotonicGrowth ==
    (SyncEnded /\ ~args.overwrite) => FileIds(obs.pre) \subseteq FileIds(files[output_file])

\* C3: a sync without --overwrite that follows a sync of the same channel into
\* the same file, and in which every call of fetch_video_info returns what a
\* call for the same id returned in that earlier sync, writes the file it found.
SameOutcomes ==
    \A i \in 1..Len(obs.results) : <<obs.enriched[i], obs.results[i]>> \in prev.outcomes

Repeated ==
    /\ SyncWrote
    /\ ~args.overwrite
    /\ prev.status = "written"
    /\ prev.channel = Channel.id
    /\ prev.path = output_file
    /\ SameOutcomes

C3_Idempotent == Repeated => files[output_file] = obs.pre

C3_Witness ==
    /\ Repeated
    /\ Len(files[output_file].data) = 1
    /\ existing_bvids # {}
    /\ obs.results = <<"none">>
    /\ Len(all_bvids) = 2

\* C4: without --overwrite, fetch_video_info is called only for discovered ids
\* that are not among the ids of the loaded file: no id of a record of the
\* file is fetched again.
C4_OnlyNewEnriched ==
    /\ \A i \in 1..Len(obs.enriched) :
          /\ obs.enriched[i] \in Range(all_bvids)
          /\ obs.enriched[i] \notin existing_bvids
    /\ (~args.overwrite /\ obs.pre.parse = "ok")
          => \A i \in 1..Len(obs.enriched) : obs.enriched[i] \notin FileIds(obs.pre)

C4_Witness ==
    /\ SyncWrote
    /\ ~args.overwrite
    /\ obs.enriched = <<"b">>
    /\ all_bvids = <<"a", "b">>
    /\ FileIds(obs.pre) = {"a"}

\* C5: get_all_bvids asks for the pages 1, 2, ... in order; every page before
\* the last one it asked for held at least page_size entries, and the last
\* one failed, was empty or held fewer than page_size; when no page failed,
\* the result is the ids of the pages asked for, in page order.  Pages of
\* 30, 30 and 12 with page_size 30 take 3 requests and give 72 ids.
RECURSIVE BvidsOfPages(_, _)
BvidsOfPages(listing, n) ==
    IF n = 0 THEN <<>>
    ELSE BvidsOfPages(listing, n - 1) \o BvidsOf(get_videos(listing, n).vlist)

C5_PaginationTerminates ==
    paging.done =>
        LET r == paging.result
            n == Len(r.requests)
            page(k) == get_videos(paging.listing, k)
        IN /\ n >= 1
           /\ r.requests = [k \in 1..n |-> k]
           /\ \A k \in 1..(n - 1) :
                 ~page(k).fail /\ Len(page(k).vlist) >= paging.page_size
           /\ \/ page(n).fail
              \/ page(n).vlist = <<>>
              \/ Len(page(n).vlist) < paging.page_size
           /\ ~page(n).fail => (~r.raised /\ r.bvids = BvidsOfPages(paging.listing, n))
           /\ (paging.listing = ExampleListing /\ paging.page_size = DefaultPageSize)
                 => (n = 3 /\ Len(r.bvids) = 72)

C5_Witness ==
    /\ paging.done
    /\ paging.listing = ExampleListing
    /\ paging.page_size = DefaultPageSize
    /\ Len(paging.result.requests) = 3
    /\ Len(paging.result.bvids) = 72

\* C6: the ids fetch_video_info is called with during one sync are pairwise
\* different.
C6_NoRepeatedNew == NoDup(obs.enriched)

\* C7: when the base metadata is there and valid, get_tags raises and
\* get_related raises or answers with a list (wrapped or not),
\* fetch_video_info returns a record whose tags are empty, and main() appends
\* it; likewise with get_related raising and related_videos; what main()
\* writes is the collection with these records.
C7_FacetIsolation ==
    /\ (obs.results # <<>> /\ obs.last.valid_base /\ obs.last.tags = "raise"
          /\ obs.last.related \in {"raise", "list", "wrapped_list"})
          => /\ Last(obs.results) = "record"
             /\ Appended # <<>>
             /\ Last(all_video_info).bvid = Some(Last(obs.enriched))
             /\ Last(all_video_info).tags = <<>>
    /\ (obs.results # <<>> /\ obs.last.valid_base /\ obs.last.related = "raise"
          /\ obs.last.tags \in {"raise", "list"})
          => /\ Last(obs.results) = "record"
             /\ Appended # <<>>
             /\ Last(all_video_info).bvid = Some(Last(obs.enriched))
             /\ Last(all_video_info).related_videos = <<>>
    /\ SyncWrote => files[output_file] = JsonFile(all_video_info)

C7_Witness ==
    /\ SyncWrote
    /\ obs.last.tags = "raise"
    /\ obs.last.related = "list"
    /\ Last(files[output_file].data).tags = <<>>
    /\ Last(files[output_file].data).related_videos # <<>>

\* C8: whenever the base metadata is there and valid, fetch_video_info
\* returns a record, whatever get_tags and get_related do.
C8_OnlyBaseDrops ==
    (obs.results # <<>> /\ obs.last.valid_base) => Last(obs.results) = "record"

\* C9: when get_info returns metadata that VideoInfo rejects (no "bvid", a
\* bvid that is no str, another required field of the wrong type),
\* fetch_video_info returns None and the loop goes on; the collection main()
\* writes is the loaded records followed by the records returned, and nothing
\* else.
NumRecords(results) == Cardinality({i \in 1..Len(results) : results[i] = "record"})

C9_ValidationDrop ==
    /\ (obs.results # <<>> /\ "get_tags" \in Range(obs.last.calls) /\ ~obs.last.valid_base)
          => /\ Last(obs.results) = "none"
             /\ Len(obs.results) = Len(obs.enriched)
    /\ pc = "enrich" => Len(all_video_info) = Len(existing_data) + NumRecords(obs.results)
    /\ SyncWrote =>
          /\ files[output_file] = JsonFile(all_video_info)
          /\ Len(files[output_file].data) = Len(existing_data) + NumRecords(obs.results)
          /\ SubSeq(files[output_file].data, 1, Len(existing_data)) = existing_data

C9_Witness ==
    /\ SyncWrote
    /\ "get_tags" \in Range(obs.last.calls)
    /\ ~obs.last.valid_base
    /\ obs.results = <<"record", "none">>
    /\ Len(files[output_file].data) = Len(existing_data) + 1

\* C10: when get_user_info raises, uploader_info is the channel id with three
\* nulls, the sync goes on to load, discover and enrich every new id, and
\* every record it appends has a null uploader_follower, a null
\* uploader_total_videos and the channel id as uploader_mid.
C10_UploaderFailureIsolated ==
    obs.up_raised =>
        /\ uploader_info = UploaderInfo(Channel.id, None, None, None)
        /\ \A i \in 1..Len(Appended) :
              /\ Appended[i].uploader_follower = None
              /\ Appended[i].uploader_total_videos = None
              /\ Appended[i].uploader_mid = Some(Channel.id)
        /\ SyncWrote => (obs.requests # <<>> /\ obs.enriched = new_bvids)

C10_Witness ==
    /\ SyncWrote
    /\ obs.up_raised
    /\ Len(Appended) = 2
    /\ obs.enriched = new_bvids

\* open(output_file, "r") at line 121 raised: the processing ended in the
\* except clause after the uploader fetch, before the file was read and
\* before any page was asked for
OpenRaised ==
    /\ pc = "next"
    /\ obs.status = "failed"
    /\ obs.fetched = 1
    /\ ~obs.loaded
    /\ obs.requests = <<>>

\* C11: when the output file exists, --overwrite is not given and the file
\* cannot be read or parsed as a collection of records, the channel does not
\* fail because of it: existing_data and existing_bvids are empty, every
\* discovered id is new, and the file written holds the records enriched in
\* this sync only.
C11_CorruptFileIsEmpty ==
    /\ ~OpenRaised
    /\ (obs.loaded /\ obs.pre.parse # "ok") =>
          /\ existing_data = <<>>
          /\ existing_bvids = {}
          /\ pc = "enrich" => new_bvids = all_bvids
          /\ SyncWrote => files[output_file] = JsonFile(Appended)

(***************************************************************************)
(* The channel loop of one invocation over the whole channel map.  Every   *)
(* await and every system call of main() returns or raises: a step that    *)
(* can be taken is taken (weak fairness of Next).                          *)
(***************************************************************************)
InitLoop == Init /\ args.channel = None

SpecLoop == InitLoop /\ [][Next]_vars /\ WF_vars(Next)

\* the try block of line 105 is entered for the i-th channel of the list
Attempting(i) == pc = "uploader" /\ chan = i

\* C12: the channels are attempted in list order, one after the other, and
\* once the first channel of the list is attempted every later one is
\* attempted too, whatever fails in between: the uploader fetch, the file
\* load, discovery, enrichment or the write.
C12_EveryChannelAttempted ==
    /\ [][chan' # chan => \/ (chan' = chan + 1 /\ pc = "next" /\ pc' = "uploader")
                           \/ (chan' = 1 /\ pc = "idle")]_vars
    /\ \A i \in 1..Len(ChannelMap) : Attempting(1) ~> Attempting(i)

C12_Witness ==
    /\ Attempting(2)
    /\ prev.status = "none"
    /\ channels_to_process = ChannelMap

\* the processing of the current channel ended in the except clause after
\* output_file was computed
SyncFailed == pc = "next" /\ obs.status = "failed" /\ obs.fetched = 1

\* C13: when the processing of a channel ends in the except clause, its
\* output file holds exactly what it held when the processing began.
C13_NoPartialOutput == SyncFailed => files[output_file] = obs.pre

\* the uploader fields of a record are those of the UploaderInfo info
CarriesUploader(rec, info) ==
    /\ rec.uploader_mid = Some(info.uploader_mid)
    /\ rec.uploader_name = info.uploader_name
    /\ rec.uploader_follower = info.uploader_follower
    /\ rec.uploader_total_videos = info.uploader_total_videos

\* C14: get_user_info is called at most once while a channel is processed,
\* however many ids are discovered or new, and every record fetch_video_info
\* returns in that processing carries the UploaderInfo that one call gave.
C14_UploaderFetchedOnce ==
    /\ obs.fetched <= 1
    /\ (pc = "enrich" \/ obs.enriched # <<>>) => obs.fetched = 1
    /\ \A i \in 1..Len(Appended) : CarriesUploader(Appended[i], uploader_info)

C14_Witness ==
    /\ SyncWrote
    /\ obs.fetched = 1
    /\ ~obs.up_raised
    /\ Len(all_bvids) = 2
    /\ Len(Appended) = 2
    /\ Appended[1].uploader_follower # None

\* s is t with some elements left out
RECURSIVE IsSubSeq(_, _)
IsSubSeq(s, t) ==
    IF s = <<>> THEN TRUE
    ELSE IF t = <<>> THEN FALSE
    ELSE IF Head(s) = Head(t) THEN IsSubSeq(Tail(s), Tail(t))
    ELSE IsSubSeq(s, Tail(t))

\* the ids for which fetch_video_info returned a record, in call order
RECURSIVE RecordIds(_, _)
RecordIds(enriched, results) ==
    IF results = <<>> THEN <<>>
    ELSE (IF Head(results) = "record" THEN <<Head(enriched)>> ELSE <<>>)
         \o RecordIds(Tail(enriched), Tail(results))

\* what main() takes as the existing collection of a file
LoadedFrom(f) == IF f.exists /\ f.parse = "ok" THEN f.data ELSE <<>>

\* C15: a sync without --overwrite that reaches the write leaves in the file
\* the collection it loaded, record for record and in the same order (records
\* without a bvid included), followed by the records fetch_video_info
\* returned, in the order in which their ids were discovered.
C15_ExistingThenNew ==
    (SyncWrote /\ ~args.overwrite) =>
        LET written == files[output_file].data
            n == Len(LoadedFrom(obs.pre))
        IN /\ files[output_file].parse = "ok"
           /\ Len(written) >= n
           /\ SubSeq(written, 1, n) = LoadedFrom(obs.pre)
           /\ [i \in 1..(Len(written) - n) |-> written[n + i].bvid]
                 = [i \in 1..Len(RecordIds(obs.enriched, obs.results)) |->
                        Some(RecordIds(obs.enriched, obs.results)[i])]
           /\ IsSubSeq(obs.enriched, all_bvids)

C15_Witness ==
    /\ SyncWrote
    /\ ~args.overwrite
    /\ obs.pre.data = <<ForeignRecord, EarlierRecord>>
    /\ all_bvids = <<"a", "b">>
    /\ Len(files[output_file].data) = 3
    /\ files[output_file].data[3].bvid = Some("b")

\* C16: every record of a file main() has written has a bvid and an
\* uploader_mid, whatever the file held before.
C16_IdAndUploaderPresent ==
    SyncWrote =>
        \A i \in 1..Len(files[output_file].data) :
            /\ files[output_file].data[i].bvid # None
            /\ files[output_file].data[i].uploader_mid # None

\* C17: in one invocation over several channels, a channel does not load or
\* write the file an earlier channel of the invocation has written, with or
\* without --output.
C17_OneFilePerChannel ==
    (chan > 1 /\ obs.fetched = 1 /\ prev.status = "written") => output_file # prev.path

(***************************************************************************)
(* fetch_video_info on its own: one call, for every valid or invalid base  *)
(* metadata, every shape of the pages list and of stat, every answer of    *)
(* get_tags and get_related, with and without a supplied UploaderInfo.     *)
(***************************************************************************)
MaxParts == 2         \* length of video_info["pages"]

\* video_info["pages"]: no such key, null, or a list of 0..MaxParts parts
PagesAnswers ==
    {<<"missing", 0>>, <<"null", 0>>} \cup {<<"list", n>> : n \in 0..MaxParts}

EnrichApis ==
    {CtorRaises} \cup BaseFails \cup
    {[ApiOf("ok", "ok", b[1], b[2], t[1], t[2], r[1], r[2])
         EXCEPT !.pages = p[1], !.npages = p[2], !.danmaku = d, !.owner_mid = o] :
        b \in InvalidBases \cup {<<"given", TRUE>>},
        t \in {<<TRUE, PyNone>>, <<FALSE, TagList>>, <<FALSE, PyDict>>},
        r \in {<<TRUE, Unwrapped(PyNone)>>, <<FALSE, Unwrapped(RelatedList)>>,
               <<FALSE, Wrapped(RelatedList)>>, <<FALSE, Unwrapped(PyDict)>>},
        p \in PagesAnswers, d \in BOOLEAN, o \in {None, Some(9)}}

InitEnrich ==
    /\ \E api \in EnrichApis, sup \in {None, Some(UploaderInfo(1, Some("n1"), Some(7), Some(3)))} :
         call = [bvid |-> "a", api |-> api, supplied |-> sup, done |-> FALSE,
                 result |-> Raised]
    /\ paging = NoPaging
    /\ manager = NoManager
    /\ files = [p \in Paths |-> NoFile]
    /\ args = [channel |-> None, output |-> None, overwrite |-> FALSE]
    /\ syncs = 0
    /\ upstream = "wide"
    /\ channels_to_process = <<>>
    /\ chan = 1
    /\ pc = "call"
    /\ uploader_info = NoUploader
    /\ output_file = OutPath
    /\ existing_data = <<>>
    /\ existing_bvids = {}
    /\ all_bvids = <<>>
    /\ new_bvids = <<>>
    /\ all_video_info = <<>>
    /\ idx = 1
    /\ prev = NoPrev
    /\ obs = NoObs

\* await fetch_video_info(bvid, credential, idx, total, uploader_info)
EnrichCall ==
    /\ pc = "call"
    /\ ~call.done
    /\ call' = [call EXCEPT !.done = TRUE,
                            !.result = fetch_video_info(call.bvid, call.api, call.supplied)]
    /\ UNCHANGED <<files, args, syncs, upstream, channels_to_process, chan, pc,
                   uploader_info, output_file, existing_data, existing_bvids,
                   all_bvids, new_bvids, all_video_info, idx, paging, manager, prev, obs>>

NextEnrich == EnrichCall

SpecEnrich == InitEnrich /\ [][NextEnrich]_vars

\* the call returned a record
Returned == call.done /\ call.result.result = "record"

\* the base metadata is valid, an uploader id is at hand, and get_tags and
\* get_related raise or answer with a list
WellFormed(api, supplied) ==
    /\ ValidBase(api)
    /\ (supplied # None \/ api.owner_mid # None)
    /\ IsListValue(TagsOf(api))
    /\ IsListValue(RelatedOf(api))

\* C18: in a record fetch_video_info returns, num_pages is the length of
\* video_info["pages"] when the metadata has that list and null when it has
\* none, and danmaku_count is null when stat has no "danmaku"; a missing
\* pages list or danmaku field does not make fetch_video_info return None.
C18_PagesAndDanmaku ==
    /\ Returned =>
          /\ call.result.rec[1].num_pages =
                (IF call.api.pages = "list" THEN Some(call.api.npages) ELSE None)
          /\ ~call.api.danmaku => call.result.rec[1].danmaku_count = None
    /\ (call.done /\ WellFormed(call.api, call.supplied)) => Returned

(***************************************************************************)
(* ChannelMapManager (src/utils/channel_map_manager.py).                   *)
(* A dict is the sequence of its entries in insertion order, with pairwise *)
(* different keys: channel_map holds [name, id], name_map holds [key,      *)
(* name] with key the decimal string of an id.  A URL is [kind, id]:       *)
(* kind "space" for a text in which the pattern                            *)
(* /space.bilibili.com/(\d+) finds the digits of id, "other" for a text    *)
(* in which it finds nothing.                                              *)
(***************************************************************************)
MaxUrls == 2          \* lines of the URL file
MaxId == 2            \* channel ids are 1..MaxId
MaxCalls == 2         \* calls of one update method on a manager

Digits == <<"1", "2", "3", "4">>
\* str(channel_id)
Str(i) == Digits[i]

Keys(d) == {d[i].name : i \in 1..Len(d)}
Values(d) == {d[i].id : i \in 1..Len(d)}
\* dict equality: the same entries, in any order
DictEq(d, e) == Range(d) = Range(e)

\* name_map.get(key, default)
NameGet(name_map, key, default) ==
    IF \E i \in 1..Len(name_map) : name_map[i].key = key
    THEN (CHOOSE e \in Range(name_map) : e.key = key).name
    ELSE default

\* lines 26-37
load_map(file) == IF file.exists /\ file.parse = "ok" THEN file.data ELSE <<>>

\* lines 54-59: the id, or None when ValueError is raised
extract_channel_id(url) == IF url.kind = "space" THEN Some(url.id) ELSE None

\* lines 64-80: the loop over the URLs
RECURSIVE urls_loop(_, _, _, _)
urls_loop(urls, name_map, channel_map, updated) ==
    IF urls = <<>> THEN [channel_map |-> channel_map, updated |-> updated]
    ELSE LET channel_id == extract_channel_id(Head(urls))
         IN IF channel_id = None
            THEN urls_loop(Tail(urls), name_map, channel_map, updated)
            ELSE LET name == IF name_map # <<>>
                             THEN NameGet(name_map, Str(channel_id[1]), Str(channel_id[1]))
                             ELSE Str(channel_id[1])
                 IN IF name \notin Keys(channel_map)
                    THEN urls_loop(Tail(urls), name_map,
                                   Append(channel_map, [name |-> name, id |-> channel_id[1]]),
                                   TRUE)
                    ELSE urls_loop(Tail(urls), name_map, channel_map, updated)

\* The lines of the URL file, the name maps a caller may pass (none or an
\* empty one, one name, the same name for two ids) and the map files a
\* manager may find: none, text that is no JSON, maps saved earlier.
Urls == {[kind |-> "space", id |-> i] : i \in 1..MaxId} \cup {[kind |-> "other", id |-> 1]}

NameMaps ==
    {<<>>,
     <<[key |-> "1", name |-> "x"]>>,
     <<[key |-> "1", name |-> "x"], [key |-> "2", name |-> "x"]>>}

StartMapFiles ==
    {NoFile,
     PartialFile,
     JsonFile(<<>>),
     JsonFile(<<[name |-> "1", id |-> 1]>>),
     JsonFile(<<[name |-> "x", id |-> 1]>>),
     JsonFile(<<[name |-> "1", id |-> 1], [name |-> "2", id |-> 2]>>)}

\* what save_map (lines 39-43) may do to the map file: write the map;
\* raise in os.makedirs or open, leaving the file; raise in json.dump after
\* open has truncated the file
SaveOutcomes(m) ==
    {[raised |-> FALSE, map_file |-> JsonFile(m.channel_map)],
     [raised |-> TRUE, map_file |-> m.map_file],
     [raised |-> TRUE, map_file |-> PartialFile]}

\* everything main() owns, at rest
MainAtRest ==
    /\ files = [p \in Paths |-> NoFile]
    /\ args = [channel |-> None, output |-> None, overwrite |-> FALSE]
    /\ syncs = 0
    /\ upstream = "narrow"
    /\ channels_to_process = <<>>
    /\ chan = 1
    /\ uploader_info = NoUploader
    /\ output_file = OutPath
    /\ existing_data = <<>>
    /\ existing_bvids = {}
    /\ all_bvids = <<>>
    /\ new_bvids = <<>>
    /\ all_video_info = <<>>
    /\ idx = 1
    /\ paging = NoPaging
    /\ call = NoEnrich
    /\ prev = NoPrev
    /\ obs = NoObs

MainUnchanged ==
    UNCHANGED <<files, args, syncs, upstream, channels_to_process, chan, pc,
                uploader_info, output_file, existing_data, existing_bvids,
                all_bvids, new_bvids, all_video_info, idx, paging, call, prev, obs>>

InitUrls ==
    /\ \E f \in StartMapFiles, u \in SeqsUpTo(Urls, MaxUrls), n \in NameMaps :
         manager = [NoManager EXCEPT !.map_file = f, !.urls = u, !.name_map = n]
    /\ pc = "map"
    /\ MainAtRest

\* ChannelMapManager(map_path, urls_path): lines 20-24
Construct ==
    /\ pc = "map"
    /\ ~manager.built
    /\ manager' = [manager EXCEPT !.built = TRUE,
                                  !.channel_map = load_map(manager.map_file)]
    /\ MainUnchanged

\* update_map_from_urls(name_map): lines 61-84
UpdateFromUrls ==
    /\ pc = "map"
    /\ manager.built
    /\ ~manager.raised
    /\ manager.calls < MaxCalls
    /\ LET r == urls_loop(manager.urls, manager.name_map, manager.channel_map, FALSE)
           m == [manager EXCEPT !.channel_map = r.channel_map,
                                !.calls = @ + 1,
                                !.before = [channel_map |-> manager.channel_map,
                                            map_file |-> manager.map_file]]
       IN IF r.updated
          THEN \E s \in SaveOutcomes(m) :
                  manager' = [m EXCEPT !.raised = s.raised, !.map_file = s.map_file]
          ELSE manager' = m
    /\ MainUnchanged

NextUrls == Construct \/ UpdateFromUrls

SpecUrls == InitUrls /\ [][NextUrls]_vars

\* the ids extract_channel_id finds in the URLs
ExtractableIds(urls) ==
    {extract_channel_id(urls[i])[1] :
        i \in {j \in 1..Len(urls) : extract_channel_id(urls[j]) # None}}

EntriesOf(channel_map, id) == {k \in 1..Len(channel_map) : channel_map[k].id = id}

\* C19: after a call of update_map_from_urls the map holds one entry for
\* every id that can be extracted from the URL file; a second call changes
\* neither channel_map nor the map file; and a manager constructed on the
\* map path loads a map equal to channel_map.
C19_UrlsIdempotent ==
    manager.calls >= 1 =>
        /\ \A id \in ExtractableIds(manager.urls) :
              Cardinality(EntriesOf(manager.channel_map, id)) = 1
        /\ manager.calls >= 2 =>
              /\ manager.channel_map = manager.before.channel_map
              /\ manager.map_file = manager.before.map_file
        /\ DictEq(load_map(manager.map_file), manager.channel_map)

(***************************************************************************)
(* update_map_from_related_channels, called with fetch_names=False.  A     *)
(* channel info file is [parse, videos]: text json.load rejects, or a list *)
(* of entries [valid, related]: valid tells whether the VideoInfo model   *)
(* accepts the entry, related is its related_videos, a list of [kind,      *)
(* mid]: kind "dict" for an object, with the owner's mid or None when it   *)
(* has none, kind "other" for a value without .get (a string, null).       *)
(***************************************************************************)
MaxRelated == 2       \* length of a related_videos list

Rels ==
    {[kind |-> "dict", mid |-> Some(i)] : i \in 1..MaxId} \cup
    {[kind |-> "dict", mid |-> None], [kind |-> "other", mid |-> None]}

Videos ==
    {[valid |-> TRUE, related |-> r] : r \in SeqsUpTo(Rels, MaxRelated)} \cup
    {[valid |-> FALSE, related |-> <<[kind |-> "dict", mid |-> Some(1)]>>]}

BadInfoFile == [parse |-> "bad_json", videos |-> <<>>]

InfoFiles == {BadInfoFile} \cup {[parse |-> "ok", videos |-> <<v>>] : v \in Videos}

\* glob(info_dir/*.json): no file, one file, or an unparsable file and another
InfoDirs == {<<>>} \cup {<<f>> : f \in InfoFiles} \cup {<<BadInfoFile, f>> : f \in InfoFiles}

\* lines 149-153: the loop over vi.related_videos; rel.get raises on a value
\* that is no dict, which ends the loop (the except of line 154)
RECURSIVE rels_loop(_, _, _)
rels_loop(rels, values, new_ids) ==
    IF rels = <<>> THEN new_ids
    ELSE IF Head(rels).kind # "dict" THEN new_ids
    ELSE LET mid == Head(rels).mid
         IN rels_loop(Tail(rels), values,
                      IF mid # None /\ mid[1] \notin values
                      THEN new_ids \cup {mid[1]} ELSE new_ids)

\* lines 146-155: the loop over the entries of one file
RECURSIVE videos_loop(_, _, _)
videos_loop(videos, values, new_ids) ==
    IF videos = <<>> THEN new_ids
    ELSE videos_loop(Tail(videos), values,
                     IF Head(videos).valid
                     THEN rels_loop(Head(videos).related, values, new_ids)
                     ELSE new_ids)

\* lines 138-157: the loop over the files
RECURSIVE info_files_loop(_, _, _)
info_files_loop(info_files, values, new_ids) ==
    IF info_files = <<>> THEN new_ids
    ELSE info_files_loop(Tail(info_files), values,
                         IF Head(info_files).parse = "ok"
                         THEN videos_loop(Head(info_files).videos, values, new_ids)
                         ELSE new_ids)

\* lines 185-197: the loop over new_ids, taken in the order mids
RECURSIVE add_loop(_, _, _, _)
add_loop(mids, name_map, channel_map, added) ==
    IF mids = <<>> THEN [channel_map |-> channel_map, added |-> added]
    ELSE LET mid == Head(mids)
             name == NameGet(name_map, Str(mid), Str(mid))
         IN IF name \notin Keys(channel_map)
            THEN add_loop(Tail(mids), name_map,
                          Append(channel_map, [name |-> name, id |-> mid]), added + 1)
            ELSE add_loop(Tail(mids), name_map, channel_map, added)

\* the orders in which a set of ids may be iterated
OrdersOf(S) == {s \in SeqsUpTo(S, Cardinality(S)) : Len(s) = Cardinality(S) /\ Range(s) = S}

InitRelated ==
    /\ \E f \in StartMapFiles, d \in InfoDirs, n \in NameMaps :
         manager = [NoManager EXCEPT !.map_file = f, !.info_files = d, !.name_map = n]
    /\ pc = "map"
    /\ MainAtRest

\* update_map_from_related_channels(info_dir, name_map=name_map): lines 119-202
UpdateFromRelated ==
    /\ pc = "map"
    /\ manager.built
    /\ ~manager.raised
    /\ manager.calls < MaxCalls
    /\ LET new_ids == info_files_loop(manager.info_files, Values(manager.channel_map), {})
       IN \E mids \in OrdersOf(new_ids) :
            LET r == add_loop(mids, manager.name_map, manager.channel_map, 0)
                m == [manager EXCEPT !.channel_map = r.channel_map,
                                     !.calls = @ + 1,
                                     !.before = [channel_map |-> manager.channel_map,
                                                 map_file |-> manager.map_file]]
            IN IF r.added > 0
               THEN \E s \in SaveOutcomes(m) :
                       manager' = [m EXCEPT !.raised = s.raised, !.map_file = s.map_file]
               ELSE manager' = m
    /\ MainUnchanged

NextRelated == Construct \/ UpdateFromRelated

SpecRelated == InitRelated /\ [][NextRelated]_vars

\* the owner ids in the related_videos of the entries VideoInfo accepts
RECURSIVE OwnerIds(_)
OwnerIds(info_files) ==
    IF info_files = <<>> THEN {}
    ELSE LET f == Head(info_files)
         IN {f.videos[i].related[j].mid[1] :
                <<i, j>> \in {p \in (1..Len(f.videos)) \X (1..MaxRelated + 1) :
                                 /\ f.videos[p[1]].valid
                                 /\ p[2] <= Len(f.videos[p[1]].related)
                                 /\ f.videos[p[1]].related[p[2]].mid # None}}
            \cup OwnerIds(Tail(info_files))

\* C20: after a call of update_map_from_related_channels every owner id in
\* the related_videos of the scanned files is a value of the map; the call
\* gives no id a second entry; and a second call over the same files leaves
\* the map as it is.
C20_RelatedIdempotent ==
    manager.calls >= 1 =>
        /\ OwnerIds(manager.info_files) \subseteq Values(manager.channel_map)
        /\ \A id \in 1..MaxId :
              Cardinality(EntriesOf(manager.channel_map, id))
                 <= IF id \in Values(manager.before.channel_map)
                    THEN Cardinality(EntriesOf(manager.before.channel_map, id)) ELSE 1
        /\ manager.calls >= 2 => manager.channel_map = manager.before.channel_map

(***************************************************************************)
(* C21.  When get_info raises, a ResponseCodeException or any other error, *)
(* fetch_video_info returns None without raising and has asked for neither *)
(* the tags nor the related videos of that id, and the loop over new_bvids *)
(* goes on with the next id: the channel is still being processed, the     *)
(* call has left one result, None, and idx has moved past the id.          *)
(***************************************************************************)
BaseFailed == obs.last.base \in {"code", "error"}

C21_BaseFailureDropsItem ==
    BaseFailed =>
        /\ obs.last.calls = <<"get_info">>
        /\ Len(obs.results) = Len(obs.enriched)
        /\ Last(obs.results) = "none"
        /\ pc = "enrich" =>
              /\ obs.status = "running"
              /\ idx = Len(obs.enriched) + 1
              /\ \A i \in 1..Len(obs.enriched) : new_bvids[i] = obs.enriched[i]

\* get_info failed with an unexpected error for the first of two new ids, and
\* the second is up next
C21_Witness ==
    /\ pc = "enrich"
    /\ obs.last.base = "error"
    /\ Len(new_bvids) = 2
    /\ obs.enriched = <<new_bvids[1]>>
    /\ idx = 2

(***************************************************************************)
(* C22.  When a page request of get_all_bvids raises, discovery ends at    *)
(* once: the pages asked for are 1, 2, ... up to the page that failed,     *)
(* each once, so that page is not asked for again and no later page is     *)
(* asked for; fetch_video_info is called for no id of the channel; and the *)
(* channel's output file is what it was when the processing began.         *)
(***************************************************************************)
PageFailed == obs.failed # {}

C22_PageFailureAborts ==
    PageFailed =>
        /\ pc = "next"
        /\ obs.status = "failed"
        /\ \A i \in 1..Len(obs.requests) : obs.requests[i] = i
        /\ obs.failed = {Len(obs.requests)}
        /\ obs.enriched = <<>>
        /\ files[output_file] = obs.pre

\* the first page was full and the request for the second failed, over a
\* file that had been loaded
C22_Witness ==
    /\ PageFailed
    /\ obs.requests = <<1, 2>>
    /\ obs.loaded
    /\ obs.pre = JsonFile(<<EarlierRecord>>)

(***************************************************************************)
(* C23.  With --overwrite the existing output file is never loaded: the    *)
(* existing collection and its id set are empty, every discovered id is    *)
(* new, and a sync that reaches the write has called fetch_video_info for  *)
(* every discovered id and leaves in the file exactly the records these    *)
(* calls returned, in discovery order, with no record of the file it       *)
(* found.                                                                  *)
(***************************************************************************)
C23_OverwriteStartsEmpty ==
    args.overwrite =>
        /\ ~obs.loaded
        /\ existing_data = <<>>
        /\ existing_bvids = {}
        /\ pc = "enrich" => new_bvids = all_bvids
        /\ SyncWrote =>
              LET written == files[output_file].data
                  ids == RecordIds(obs.enriched, obs.results)
              IN /\ obs.enriched = all_bvids
                 /\ files[output_file].exists
                 /\ files[output_file].parse = "ok"
                 /\ written = all_video_info
                 /\ [i \in 1..Len(written) |-> written[i].bvid]
                       = [i \in 1..Len(ids) |-> Some(ids[i])]

\* an overwriting sync over a file of two records, one of them of id "a",
\* that discovered "a" and "b" and got a record for "b" only
C23_Witness ==
    /\ SyncWrote
    /\ args.overwrite
    /\ obs.pre = JsonFile(<<ForeignRecord, EarlierRecord>>)
    /\ all_bvids = <<"a", "b">>
    /\ obs.results = <<"none", "record">>
    /\ Len(files[output_file].data) = 1

(***************************************************************************)
(* C24.  No exception raised while one id is enriched leaves               *)
(* fetch_video_info, the construction of video.Video included: every call  *)
(* returns a record or None, so a channel whose enrichment has begun       *)
(* is still being processed or has been through the write.                 *)
(***************************************************************************)
C24_EnrichNeverRaises ==
    /\ Len(obs.results) = Len(obs.enriched)
    /\ (obs.enriched # <<>> /\ obs.status = "failed") =>
           /\ idx > Len(new_bvids)
           /\ obs.enriched = new_bvids

(***************************************************************************)
(* C25.  Two syncs of the same channel without --output and without        *)
(* --overwrite resolve the same output file, whether get_user_info         *)
(* answered or raised, so an id for which the earlier sync stored a record *)
(* is not passed to fetch_video_info by the later one.                     *)
(***************************************************************************)
C25_StableDefaultPath ==
    (/\ pc \notin {"idle", "uploader"}
     /\ obs.fetched = 1
     /\ args.output = None
     /\ ~args.overwrite
     /\ prev.status = "written"
     /\ prev.channel = Channel.id) =>
        /\ output_file = prev.path
        /\ \A i \in 1..Len(obs.enriched) : <<obs.enriched[i], "record">> \notin prev.outcomes

(***************************************************************************)
(* fetch_and_update_names.  The answer of user.get_user_info() for an      *)
(* entry of the map is [raises, name]: the request (or User(int(id)))      *)
(* raises, or info.get("name") is a name, or None when the answer has no   *)
(* name or an empty one.                                                   *)
(***************************************************************************)
NameAnswers ==
    {[raises |-> TRUE, name |-> None]} \cup
    {[raises |-> FALSE, name |-> n] : n \in {None, Some("x"), Some("y")}}

\* new_map[name] = channel_id on a dict kept in insertion order
DictSet(d, name, id) ==
    IF name \in Keys(d)
    THEN [k \in 1..Len(d) |-> IF d[k].name = name THEN [name |-> name, id |-> id] ELSE d[k]]
    ELSE Append(d, [name |-> name, id |-> id])

\* lines 90-111: the loop over channel_map.items()
RECURSIVE names_loop(_, _, _, _, _)
names_loop(channel_map, answers, k, new_map, updated) ==
    IF k > Len(channel_map) THEN [new_map |-> new_map, updated |-> updated]
    ELSE LET old_key == channel_map[k].name
             channel_id == channel_map[k].id
             info == answers[k]
         IN IF info.raises
            THEN names_loop(channel_map, answers, k + 1,
                            DictSet(new_map, old_key, channel_id), updated)
            ELSE LET name == IF info.name # None THEN info.name[1] ELSE Str(channel_id)
                 IN names_loop(channel_map, answers, k + 1,
                               DictSet(new_map, name, channel_id),
                               updated \/ name # old_key)

\* the map files a manager may find before it fetches the names
NamesMapFiles ==
    StartMapFiles \cup
    {JsonFile(<<[name |-> "x", id |-> 1], [name |-> "y", id |-> 2]>>),
     JsonFile(<<[name |-> "1", id |-> 1], [name |-> "x", id |-> 1]>>)}

InitNames ==
    /\ \E f \in NamesMapFiles : manager = [NoManager EXCEPT !.map_file = f]
    /\ pc = "map"
    /\ MainAtRest

\* fetch_and_update_names(): lines 86-117
FetchAndUpdateNames ==
    /\ pc = "map"
    /\ manager.built
    /\ ~manager.raised
    /\ manager.calls < MaxCalls
    /\ \E answers \in [1..Len(manager.channel_map) -> NameAnswers] :
         LET r == names_loop(manager.channel_map, answers, 1, <<>>, FALSE)
             m == [manager EXCEPT !.calls = @ + 1,
                                  !.before = [channel_map |-> manager.channel_map,
                                              map_file |-> manager.map_file]]
         IN IF r.updated
            THEN \E s \in SaveOutcomes([m EXCEPT !.channel_map = r.new_map]) :
                    manager' = [m EXCEPT !.channel_map = r.new_map,
                                         !.raised = s.raised, !.map_file = s.map_file]
            ELSE manager' = m
    /\ MainUnchanged

NextNames == Construct \/ FetchAndUpdateNames

SpecNames == InitNames /\ [][NextNames]_vars

(***************************************************************************)
(* C26.  fetch_and_update_names preserves the set of channel ids: whatever *)
(* the map and whatever the name fetches answer, two channels with the     *)
(* same name and failing fetches included, the ids of the map after the    *)
(* call are the ids of the map before it.                                  *)
(***************************************************************************)
C26_NamesPreserveIds ==
    manager.calls >= 1 => Values(manager.channel_map) = Values(manager.before.channel_map)

====
